---- MODULE Spec2Model ----
(***************************************************************************)
(* Graph algorithm engine of the Data-Structures visualizer: Graph.h       *)
(* (Stack, Queue, AdjList, Heap, Graph) and the exported bridge functions  *)
(* of main.cpp (initGraph, addEdge, runBFS, runDFS, runPrims,              *)
(* runDijkstra).  Arrays are functions over 0..n-1 as in the C++ code; the *)
(* heap array is 1-based as in the C++ code.                               *)
(***************************************************************************)
EXTENDS Integers, Sequences, FiniteSets

VARIABLES globalGraph, vertices, array, AdjMat, outputBuffer, lastCall, runs, edgeLog,
          dropped, discarded, heap, heapCall, stack, queue, calls,
          isGraphReady, nodes, isWeighted, frame, returned

\* the state of the bridge and its history
bridge == <<globalGraph, vertices, array, AdjMat, outputBuffer, lastCall, runs, edgeLog,
            dropped, discarded>>
\* one Heap, one Stack and one Queue used on their own, and their history
standalone == <<heap, heapCall, stack, queue, calls>>

\* the state of the front end (script.js), the locals of the algorithm call
\* in progress, and what getResultBuffer returned last
others == <<isGraphReady, nodes, isWeighted, frame, returned>>

vars == <<bridge, standalone, others>>

(* ------------------------------ bounds --------------------------------- *)
MaxVertices == 3
MaxEdges == 3
MaxWeight == 2
\* iteration by iteration: weights 0..MaxStepWeight
MaxStepWeight == 1
MaxRuns == 2
MaxReinserts == 11
\* path graphs: vertices
MaxPath == 4
\* sessions that follow a deleted graph: edges per graph
MaxDiscarded == 2
\* the heap on its own: capacity, keys 0..MaxKey, vertices 0..MaxHeapVertex
MaxCapacity == 4
MaxKey == 2
MaxHeapVertex == 1
\* the stack and the queue on their own: nodes alive per container, values
\* 1..MaxValue, and the number of calls the history remembers
MaxNodes == 2
MaxValue == 2
Remembered == 3

INT_MAX == 2147483647

Weights == 1..MaxWeight
\* what `new int[vertices]` may hold before any algorithm wrote to it: cell i
\* holds g * (i + 1) for one of these g, so no two cells and no vertex
\* number, sentinel or distance coincide with it
Uninit == {-7, 7}

(* ------------------------- Stack<T> / Queue<T> ------------------------- *)
\* push that puts the value under the stack
Stack_push_atBottom(s, v) == Append(s, v)

Stack_push(s, v) == <<v>> \o s
Stack_pop(s) == IF s = <<>> THEN s ELSE Tail(s)
Stack_top(s) == IF s # <<>> THEN Head(s) ELSE 0
Stack_isEmpty(s) == s = <<>>

Queue_enqueue(q, v) == Append(q, v)
Queue_dequeue(q) == IF q = <<>> THEN q ELSE Tail(q)
Queue_getFront(q) == IF q # <<>> THEN Head(q) ELSE 0
Queue_isEmpty(q) == q = <<>>

(* ------------------------------ AdjList -------------------------------- *)
Node(dest, w) == [destination |-> dest, weight |-> w]
\* AddEdge that links the new record behind rear instead of before front
AdjList_AddEdge_atRear(chain, dest, w) == Append(chain, Node(dest, w))
\* AddEdge that links the new record behind the first record of the chain
AdjList_AddEdge_afterFront(chain, dest, w) ==
    IF chain = <<>> THEN <<Node(dest, w)>>
    ELSE <<Head(chain), Node(dest, w)>> \o Tail(chain)
AdjList_AddEdge(chain, dest, w) == <<Node(dest, w)>> \o chain
AdjList_getHead(chain) == chain

(* -------------------------------- Heap --------------------------------- *)
HNode(v, k) == [vertex |-> v, key |-> k]

Swap(arr, i, j) == [arr EXCEPT ![i] = arr[j], ![j] = arr[i]]

\* percolateDown that never looks at the right child
RECURSIVE percolateDown_leftOnly(_, _)
percolateDown_leftOnly(arr, i) ==
    LET size == Len(arr)
        left == 2 * i
        smallest == IF left <= size /\ arr[left].key < arr[i].key THEN left ELSE i
    IN  IF smallest # i THEN percolateDown_leftOnly(Swap(arr, i, smallest), smallest) ELSE arr

RECURSIVE percolateDown(_, _)
percolateDown(arr, i) ==
    LET size == Len(arr)
        left == 2 * i
        right == 2 * i + 1
        s1 == IF left <= size /\ arr[left].key < arr[i].key THEN left ELSE i
        smallest == IF right <= size /\ arr[right].key < arr[s1].key THEN right ELSE s1
    IN  IF smallest # i THEN percolateDown(Swap(arr, i, smallest), smallest) ELSE arr

\* percolateUp with an if in place of the while: one swap at most
percolateUp_once(arr, i) ==
    LET parent == i \div 2
    IN  IF i > 1 /\ arr[i].key < arr[parent].key THEN Swap(arr, i, parent) ELSE arr

RECURSIVE percolateUp(_, _)
percolateUp(arr, i) ==
    LET parent == i \div 2
    IN  IF i > 1 /\ arr[i].key < arr[parent].key
        THEN percolateUp(Swap(arr, i, parent), parent)
        ELSE arr

Heap_new(cap) == [arr |-> <<>>, capacity |-> cap]
Heap_isEmpty(h) == Len(h.arr) = 0

\* InsertKey whose capacity check is size > capacity
Heap_InsertKey_offByOne(h, v, k) ==
    IF Len(h.arr) > h.capacity
    THEN h
    ELSE [h EXCEPT !.arr = percolateUp(Append(h.arr, HNode(v, k)), Len(h.arr) + 1)]

Heap_InsertKey(h, v, k) ==
    IF Len(h.arr) >= h.capacity
    THEN h
    ELSE [h EXCEPT !.arr = percolateUp(Append(h.arr, HNode(v, k)), Len(h.arr) + 1)]

\* ExtractMin that answers an empty heap with the sentinel (-1, INT_MAX)
Heap_ExtractMin_sentinel(h) ==
    LET size == Len(h.arr)
    IN  IF size = 0
        THEN [minNode |-> HNode(-1, INT_MAX), heap |-> h]
        ELSE [minNode |-> h.arr[1],
              heap |-> [h EXCEPT !.arr =
                          IF size = 1 THEN <<>>
                          ELSE percolateDown(<<h.arr[size]>> \o SubSeq(h.arr, 2, size - 1), 1)]]

\* ExtractMin: the returned node and the heap left behind
Heap_ExtractMin(h) ==
    LET size == Len(h.arr)
    IN  IF size = 0
        THEN [minNode |-> HNode(0, 0), heap |-> h]
        ELSE [minNode |-> h.arr[1],
              heap |-> [h EXCEPT !.arr =
                          IF size = 1 THEN <<>>
                          ELSE percolateDown(<<h.arr[size]>> \o SubSeq(h.arr, 2, size - 1), 1)]]

(* -------------------------------- Graph -------------------------------- *)
Vertex(n) == 0..(n - 1)

Graph_array(v) == [i \in Vertex(v) |-> <<>>]
Graph_AdjMat(v) == [i \in Vertex(v) |-> [j \in Vertex(v) |-> 0]]

\* addEdge that mirrors nothing: only the chain and cell of src are written
Graph_addEdge_directed(n, adj, mat, src, dest, w) ==
    IF src >= 0 /\ src < n /\ dest >= 0 /\ dest < n
    THEN [array |-> [adj EXCEPT ![src] = AdjList_AddEdge(adj[src], dest, w)],
          AdjMat |-> [mat EXCEPT ![src][dest] = w]]
    ELSE [array |-> adj, AdjMat |-> mat]

\* addEdge that forgets the range check of dest
Graph_addEdge_srcOnly(n, adj, mat, src, dest, w) ==
    IF src >= 0 /\ src < n
    THEN [array |-> [adj EXCEPT ![src] = AdjList_AddEdge(adj[src], dest, w)],
          AdjMat |-> mat]
    ELSE [array |-> adj, AdjMat |-> mat]

\* addEdge that writes a matrix cell only while the cell is still 0
Graph_addEdge_keepFirst(n, adj, mat, src, dest, w) ==
    IF src >= 0 /\ src < n /\ dest >= 0 /\ dest < n
    THEN LET a1 == [adj EXCEPT ![src] = AdjList_AddEdge(adj[src], dest, w)]
             a2 == [a1 EXCEPT ![dest] = AdjList_AddEdge(a1[dest], src, w)]
             m1 == [mat EXCEPT ![src][dest] = IF @ = 0 THEN w ELSE @]
             m2 == [m1 EXCEPT ![dest][src] = IF @ = 0 THEN w ELSE @]
         IN  [array |-> a2, AdjMat |-> m2]
    ELSE [array |-> adj, AdjMat |-> mat]

\* Graph::addEdge on (vertices, array, AdjMat); the two chains and the two
\* cells are written in the order of the code
Graph_addEdge(n, adj, mat, src, dest, w) ==
    IF src >= 0 /\ src < n /\ dest >= 0 /\ dest < n
    THEN LET a1 == [adj EXCEPT ![src] = AdjList_AddEdge(adj[src], dest, w)]
             a2 == [a1 EXCEPT ![dest] = AdjList_AddEdge(a1[dest], src, w)]
             m1 == [mat EXCEPT ![src][dest] = w]
             m2 == [m1 EXCEPT ![dest][src] = w]
         IN  [array |-> a2, AdjMat |-> m2]
    ELSE [array |-> adj, AdjMat |-> mat]

NoneVisited(n) == [i \in Vertex(n) |-> FALSE]

\* inner while of BFS: scan one adjacency chain from record i on
RECURSIVE BFSScan(_, _, _, _)
BFSScan(chain, i, visited, q) ==
    IF i > Len(chain)
    THEN [visited |-> visited, q |-> q]
    ELSE LET adjVertex == chain[i].destination
         IN  IF ~visited[adjVertex]
             THEN BFSScan(chain, i + 1, [visited EXCEPT ![adjVertex] = TRUE],
                          Queue_enqueue(q, adjVertex))
             ELSE BFSScan(chain, i + 1, visited, q)

\* BFS loop that fills the buffer from its last cell downwards
RECURSIVE BFSLoop_fromBack(_, _, _, _, _)
BFSLoop_fromBack(adj, q, visited, buffer, count) ==
    IF Queue_isEmpty(q)
    THEN [buffer |-> buffer, count |-> count]
    ELSE LET currVertex == Queue_getFront(q)
             sc == BFSScan(AdjList_getHead(adj[currVertex]), 1, visited, Queue_dequeue(q))
         IN  BFSLoop_fromBack(adj, sc.q, sc.visited,
                              [buffer EXCEPT ![Cardinality(DOMAIN buffer) - 1 - count] =
                                                 currVertex],
                              count + 1)

\* BFS loop that adds the vertex to the cell instead of storing it
RECURSIVE BFSLoop_adding(_, _, _, _, _)
BFSLoop_adding(adj, q, visited, buffer, count) ==
    IF Queue_isEmpty(q)
    THEN [buffer |-> buffer, count |-> count]
    ELSE LET currVertex == Queue_getFront(q)
             sc == BFSScan(AdjList_getHead(adj[currVertex]), 1, visited, Queue_dequeue(q))
         IN  BFSLoop_adding(adj, sc.q, sc.visited,
                            [buffer EXCEPT ![count] = @ + currVertex], count + 1)

\* outer while of BFS
RECURSIVE BFSLoop(_, _, _, _, _)
BFSLoop(adj, q, visited, buffer, count) ==
    IF Queue_isEmpty(q)
    THEN [buffer |-> buffer, count |-> count]
    ELSE LET currVertex == Queue_getFront(q)
             sc == BFSScan(AdjList_getHead(adj[currVertex]), 1, visited, Queue_dequeue(q))
         IN  BFSLoop(adj, sc.q, sc.visited, [buffer EXCEPT ![count] = currVertex], count + 1)

\* BFS that enqueues start without marking it visited
BFS_startUnmarked(n, adj, startIndex, buffer) ==
    BFSLoop(adj, Queue_enqueue(<<>>, startIndex), NoneVisited(n), buffer, 0)

\* BFS that fills the buffer with -1 before it starts
BFS_prefilled(n, adj, startIndex, buffer) ==
    BFSLoop(adj, Queue_enqueue(<<>>, startIndex),
            [NoneVisited(n) EXCEPT ![startIndex] = TRUE], [i \in Vertex(n) |-> -1], 0)

BFS(n, adj, startIndex, buffer) ==
    BFSLoop(adj, Queue_enqueue(<<>>, startIndex),
            [NoneVisited(n) EXCEPT ![startIndex] = TRUE], buffer, 0)

\* inner while of DFS that stops at the first unvisited neighbour
DFSScan_firstOnly(chain, i, visited, s) ==
    LET open == {j \in i..Len(chain) : ~visited[chain[j].destination]}
    IN  IF open = {} THEN s
        ELSE Stack_push(s, chain[CHOOSE j \in open : \A k \in open : j <= k].destination)

\* inner while of DFS
RECURSIVE DFSScan(_, _, _, _)
DFSScan(chain, i, visited, s) ==
    IF i > Len(chain)
    THEN s
    ELSE LET AdjVertex == chain[i].destination
         IN  IF ~visited[AdjVertex]
             THEN DFSScan(chain, i + 1, visited, Stack_push(s, AdjVertex))
             ELSE DFSScan(chain, i + 1, visited, s)

\* outer while of DFS
RECURSIVE DFSLoop(_, _, _, _, _)
DFSLoop(adj, s, visited, buffer, count) ==
    IF Stack_isEmpty(s)
    THEN [buffer |-> buffer, count |-> count]
    ELSE LET currVertex == Stack_top(s)
             s1 == Stack_pop(s)
             fresh == ~visited[currVertex]
             buffer1 == IF fresh THEN [buffer EXCEPT ![count] = currVertex] ELSE buffer
             count1 == IF fresh THEN count + 1 ELSE count
             visited1 == [visited EXCEPT ![currVertex] = TRUE]
         IN  DFSLoop(adj, DFSScan(AdjList_getHead(adj[currVertex]), 1, visited1, s1),
                     visited1, buffer1, count1)

\* DFS that marks start visited when it pushes it, as BFS does
DFS_startMarked(n, adj, startIndex, buffer) ==
    DFSLoop(adj, Stack_push(<<>>, startIndex),
            [NoneVisited(n) EXCEPT ![startIndex] = TRUE], buffer, 0)

DFS(n, adj, startIndex, buffer) ==
    DFSLoop(adj, Stack_push(<<>>, startIndex), NoneVisited(n), buffer, 0)

\* 1 when InsertKey on h returns at its capacity check without storing
Dropped(h) == IF Len(h.arr) >= h.capacity THEN 1 ELSE 0

\* inner while of PrimsAlgorithm without the visited check
RECURSIVE PrimScan_anyVertex(_, _, _, _, _, _, _, _)
PrimScan_anyVertex(chain, i, u, visited, key, parentBuffer, h, lost) ==
    IF i > Len(chain)
    THEN [key |-> key, parentBuffer |-> parentBuffer, h |-> h, lost |-> lost]
    ELSE LET v == chain[i].destination
             weight == chain[i].weight
         IN  IF weight < key[v]
             THEN PrimScan_anyVertex(chain, i + 1, u, visited, [key EXCEPT ![v] = weight],
                                     [parentBuffer EXCEPT ![v] = u],
                                     Heap_InsertKey(h, v, weight), lost + Dropped(h))
             ELSE PrimScan_anyVertex(chain, i + 1, u, visited, key, parentBuffer, h, lost)

\* inner while of PrimsAlgorithm, scanning the chain of u; lost counts the
\* InsertKey calls of the run that stored nothing
RECURSIVE PrimScan(_, _, _, _, _, _, _, _)
PrimScan(chain, i, u, visited, key, parentBuffer, h, lost) ==
    IF i > Len(chain)
    THEN [key |-> key, parentBuffer |-> parentBuffer, h |-> h, lost |-> lost]
    ELSE LET v == chain[i].destination
             weight == chain[i].weight
         IN  IF ~visited[v] /\ weight < key[v]
             THEN PrimScan(chain, i + 1, u, visited, [key EXCEPT ![v] = weight],
                           [parentBuffer EXCEPT ![v] = u], Heap_InsertKey(h, v, weight),
                           lost + Dropped(h))
             ELSE PrimScan(chain, i + 1, u, visited, key, parentBuffer, h, lost)

\* outer while of PrimsAlgorithm
RECURSIVE PrimLoop(_, _, _, _, _, _)
PrimLoop(adj, h, key, visited, parentBuffer, lost) ==
    IF Heap_isEmpty(h)
    THEN [parentBuffer |-> parentBuffer, lost |-> lost]
    ELSE LET ex == Heap_ExtractMin(h)
             u == ex.minNode.vertex
         IN  IF visited[u]
             THEN PrimLoop(adj, ex.heap, key, visited, parentBuffer, lost)
             ELSE LET visited1 == [visited EXCEPT ![u] = TRUE]
                      sc == PrimScan(AdjList_getHead(adj[u]), 1, u, visited1, key,
                                     parentBuffer, ex.heap, lost)
                  IN  PrimLoop(adj, sc.h, sc.key, visited1, sc.parentBuffer, sc.lost)

\* Prim's that zero-fills parentBuffer instead of writing the -1 sentinel
PrimsAlgorithm_zeroFilled(n, adj, startIndex, parentBuffer) ==
    PrimLoop(adj, Heap_InsertKey(Heap_new(n * n), startIndex, 0),
             [[i \in Vertex(n) |-> INT_MAX] EXCEPT ![startIndex] = 0],
             NoneVisited(n),
             [i \in Vertex(n) |-> 0],
             Dropped(Heap_new(n * n)))

\* the buffer PrimsAlgorithm leaves and the number of its lost InsertKey calls
PrimsAlgorithm(n, adj, startIndex, parentBuffer) ==
    PrimLoop(adj, Heap_InsertKey(Heap_new(n * n), startIndex, 0),
             [[i \in Vertex(n) |-> INT_MAX] EXCEPT ![startIndex] = 0],
             NoneVisited(n),
             [i \in Vertex(n) |-> -1],
             Dropped(Heap_new(n * n)))

\* inner while of DijkstraAlgorithm, scanning the chain of u
RECURSIVE DijkstraScan(_, _, _, _, _, _)
DijkstraScan(chain, i, u, distBuffer, h, lost) ==
    IF i > Len(chain)
    THEN [distBuffer |-> distBuffer, h |-> h, lost |-> lost]
    ELSE LET v == chain[i].destination
             weight == chain[i].weight
         IN  IF distBuffer[u] # INT_MAX /\ distBuffer[u] + weight < distBuffer[v]
             THEN LET d1 == [distBuffer EXCEPT ![v] = distBuffer[u] + weight]
                  IN  DijkstraScan(chain, i + 1, u, d1, Heap_InsertKey(h, v, d1[v]),
                                   lost + Dropped(h))
             ELSE DijkstraScan(chain, i + 1, u, distBuffer, h, lost)

\* outer while of DijkstraAlgorithm
RECURSIVE DijkstraLoop(_, _, _, _)
DijkstraLoop(adj, h, distBuffer, lost) ==
    IF Heap_isEmpty(h)
    THEN [distBuffer |-> distBuffer, lost |-> lost]
    ELSE LET ex == Heap_ExtractMin(h)
             u == ex.minNode.vertex
             d == ex.minNode.key
         IN  IF d > distBuffer[u]
             THEN DijkstraLoop(adj, ex.heap, distBuffer, lost)
             ELSE LET sc == DijkstraScan(AdjList_getHead(adj[u]), 1, u, distBuffer,
                                         ex.heap, lost)
                  IN  DijkstraLoop(adj, sc.h, sc.distBuffer, sc.lost)

\* Dijkstra that keeps what the buffer held instead of writing INT_MAX first
DijkstraAlgorithm_noFill(n, adj, startIndex, distBuffer) ==
    DijkstraLoop(adj, Heap_InsertKey(Heap_new(n * n), startIndex, 0),
                 [distBuffer EXCEPT ![startIndex] = 0],
                 Dropped(Heap_new(n * n)))

\* the buffer DijkstraAlgorithm leaves and the number of its lost InsertKey calls
DijkstraAlgorithm(n, adj, startIndex, distBuffer) ==
    DijkstraLoop(adj, Heap_InsertKey(Heap_new(n * n), startIndex, 0),
                 [[i \in Vertex(n) |-> INT_MAX] EXCEPT ![startIndex] = 0],
                 Dropped(Heap_new(n * n)))

(* ------------------- Heap, Stack and Queue on their own ----------------- *)
\* history of the heap: the member function called last, its arguments, what
\* it returned and the heap it was called on
HeapCall(op, v, k, ret, before) ==
    [op |-> op, v |-> v, k |-> k, ret |-> ret, before |-> before]

\* the null pointer, and the value of T() for T = int
NULL == 0
\* the nodes of a linked container: a function from the addresses in use to
\* the node stored there
NoNodes == [a \in {} |-> 0]
Allocate(node, a, data, next) ==
    [x \in DOMAIN node \cup {a} |-> IF x = a THEN [data |-> data, next |-> next] ELSE node[x]]
Delete(node, a) == [x \in DOMAIN node \ {a} |-> node[x]]

\* Stack() and Queue()
Stack_new == [front |-> NULL, node |-> NoNodes]
Queue_new == [front |-> NULL, rear |-> NULL, node |-> NoNodes]

(* ------------------ the algorithm call in progress --------------------- *)
\* no call is in progress
Idle == [alg |-> "none"]

(* ------------------------- bridge (main.cpp) --------------------------- *)
Call(op, a, b, c, count) == [op |-> op, a |-> a, b |-> b, c |-> c, count |-> count]

EdgeCount == LET RECURSIVE Sum(_)
                 Sum(S) == IF S = {} THEN 0
                           ELSE LET x == CHOOSE y \in S : TRUE
                                IN  Len(array[x]) + Sum(S \ {x})
             IN  Sum(DOMAIN array) \div 2

ValidEdge(u, v) == u \in Vertex(vertices) /\ v \in Vertex(vertices)

\* history: lastCall is the bridge function called last and its arguments (for
\* a traversal also the final value of its local count), runs the number of
\* algorithm calls since initGraph, edgeLog the addEdge calls with both
\* vertices in range since initGraph, oldest first, endpoints in increasing
\* order, dropped the number of InsertKey calls that stored nothing in the
\* last runPrims or runDijkstra since initGraph, discarded the number of edges
\* of the graph an initGraph deleted (written where a specification follows it)
Logged(u, v, w) == [u |-> IF u <= v THEN u ELSE v, v |-> IF u <= v THEN v ELSE u, w |-> w]

Init ==
    /\ globalGraph = FALSE
    /\ vertices = 0
    /\ array = Graph_array(0)
    /\ AdjMat = Graph_AdjMat(0)
    /\ outputBuffer = <<>>
    /\ lastCall = Call("none", 0, 0, 0, 0)
    /\ runs = 0
    /\ edgeLog = <<>>
    /\ dropped = 0
    /\ discarded = 0
    /\ heap = Heap_new(0)
    /\ heapCall = HeapCall("none", 0, 0, HNode(0, 0), Heap_new(0))
    /\ stack = Stack_new
    /\ queue = Queue_new
    /\ calls = <<>>
    /\ isGraphReady = FALSE
    /\ nodes = <<>>
    /\ isWeighted = TRUE
    /\ frame = Idle
    /\ returned = "none"

\* initGraph that keeps the graph it has when the vertex count is the same
initGraph_sameSize(n) ==
    /\ globalGraph' = TRUE
    /\ vertices' = n
    /\ array' = IF globalGraph /\ vertices = n THEN array ELSE Graph_array(n)
    /\ AdjMat' = IF globalGraph /\ vertices = n THEN AdjMat ELSE Graph_AdjMat(n)
    /\ \E g \in Uninit : outputBuffer' = [i \in Vertex(n) |-> g * (i + 1)]
    /\ lastCall' = Call("initGraph", n, 0, 0, 0)
    /\ runs' = 0
    /\ edgeLog' = <<>>
    /\ dropped' = 0
    /\ UNCHANGED standalone

initGraph(n) ==
    /\ globalGraph' = TRUE
    /\ vertices' = n
    /\ array' = Graph_array(n)
    /\ AdjMat' = Graph_AdjMat(n)
    /\ \E g \in Uninit : outputBuffer' = [i \in Vertex(n) |-> g * (i + 1)]
    /\ lastCall' = Call("initGraph", n, 0, 0, 0)
    /\ runs' = 0
    /\ edgeLog' = <<>>
    /\ dropped' = 0
    /\ UNCHANGED standalone

addEdge(u, v, w) ==
    /\ IF globalGraph
       THEN LET g == Graph_addEdge(vertices, array, AdjMat, u, v, w)
            IN  /\ array' = g.array
                /\ AdjMat' = g.AdjMat
       ELSE UNCHANGED <<array, AdjMat>>
    /\ lastCall' = Call("addEdge", u, v, w, 0)
    /\ edgeLog' = IF globalGraph /\ ValidEdge(u, v)
                  THEN Append(edgeLog, Logged(u, v, w))
                  ELSE edgeLog
    /\ UNCHANGED <<globalGraph, vertices, outputBuffer, runs, dropped, discarded>>
    /\ UNCHANGED standalone

\* what getResultBuffer returns: the null pointer until initGraph allocated
\* the buffer, the address of the buffer after that
ResultBuffer == IF outputBuffer = <<>> THEN "nullptr" ELSE "outputBuffer"

getResultBuffer ==
    /\ returned' = ResultBuffer
    /\ lastCall' = Call("getResultBuffer", 0, 0, 0, 0)
    /\ UNCHANGED <<globalGraph, vertices, array, AdjMat, outputBuffer, runs, edgeLog,
                   dropped, discarded>>
    /\ UNCHANGED standalone

\* runBFS without the check of globalGraph: the start vertex is written to
\* cell 0 whatever the buffer is
runBFS_unguarded(startNode) ==
    /\ IF globalGraph
       THEN LET r == BFS(vertices, array, startNode, outputBuffer)
            IN  /\ outputBuffer' = r.buffer
                /\ lastCall' = Call("runBFS", startNode, 0, 0, r.count)
       ELSE /\ outputBuffer' = [i \in {0} |-> startNode]
            /\ lastCall' = Call("runBFS", startNode, 0, 0, 1)
    /\ runs' = runs + 1
    /\ UNCHANGED <<globalGraph, vertices, array, AdjMat, edgeLog, dropped, discarded>>
    /\ UNCHANGED standalone

runBFS(startNode) ==
    /\ IF globalGraph
       THEN LET r == BFS(vertices, array, startNode, outputBuffer)
            IN  /\ outputBuffer' = r.buffer
                /\ lastCall' = Call("runBFS", startNode, 0, 0, r.count)
       ELSE /\ UNCHANGED outputBuffer
            /\ lastCall' = Call("runBFS", startNode, 0, 0, 0)
    /\ runs' = runs + 1
    /\ UNCHANGED <<globalGraph, vertices, array, AdjMat, edgeLog, dropped, discarded>>
    /\ UNCHANGED standalone

\* runDFS that frees the chain of the start vertex while it walks it
runDFS_consuming(startNode) ==
    /\ IF globalGraph
       THEN LET r == DFS(vertices, array, startNode, outputBuffer)
            IN  /\ outputBuffer' = r.buffer
                /\ lastCall' = Call("runDFS", startNode, 0, 0, r.count)
                /\ array' = [array EXCEPT ![startNode] = <<>>]
       ELSE /\ UNCHANGED <<outputBuffer, array>>
            /\ lastCall' = Call("runDFS", startNode, 0, 0, 0)
    /\ runs' = runs + 1
    /\ UNCHANGED <<globalGraph, vertices, AdjMat, edgeLog, dropped, discarded>>
    /\ UNCHANGED standalone

runDFS(startNode) ==
    /\ IF globalGraph
       THEN LET r == DFS(vertices, array, startNode, outputBuffer)
            IN  /\ outputBuffer' = r.buffer
                /\ lastCall' = Call("runDFS", startNode, 0, 0, r.count)
       ELSE /\ UNCHANGED outputBuffer
            /\ lastCall' = Call("runDFS", startNode, 0, 0, 0)
    /\ runs' = runs + 1
    /\ UNCHANGED <<globalGraph, vertices, array, AdjMat, edgeLog, dropped, discarded>>
    /\ UNCHANGED standalone

runPrims(startNode) ==
    /\ IF globalGraph
       THEN LET r == PrimsAlgorithm(vertices, array, startNode, outputBuffer)
            IN  /\ outputBuffer' = r.parentBuffer
                /\ dropped' = r.lost
       ELSE UNCHANGED <<outputBuffer, dropped>>
    /\ lastCall' = Call("runPrims", startNode, 0, 0, 0)
    /\ runs' = runs + 1
    /\ UNCHANGED <<globalGraph, vertices, array, AdjMat, edgeLog, discarded>>
    /\ UNCHANGED standalone

runDijkstra(startNode) ==
    /\ IF globalGraph
       THEN LET r == DijkstraAlgorithm(vertices, array, startNode, outputBuffer)
            IN  /\ outputBuffer' = r.distBuffer
                /\ dropped' = r.lost
       ELSE UNCHANGED <<outputBuffer, dropped>>
    /\ lastCall' = Call("runDijkstra", startNode, 0, 0, 0)
    /\ runs' = runs + 1
    /\ UNCHANGED <<globalGraph, vertices, array, AdjMat, edgeLog, discarded>>
    /\ UNCHANGED standalone

\* start vertices a caller may pass: any vertex of the current graph (the
\* front end rejects every other start before it calls the engine)
Starts == IF globalGraph THEN Vertex(vertices) ELSE {0}
\* vertex arguments of addEdge: every pair of vertices, and pairs with src
\* below the range, dest above it, or both outside it
EdgeArgs ==
    (Vertex(vertices) \X Vertex(vertices))
        \cup {<<-1, 0>>, <<0, vertices>>, <<vertices, -1>>}

\* One session per initGraph: up to MaxEdges accepted addEdge calls (and any
\* number of rejected ones), then up to MaxRuns algorithm calls.
Next ==
    \/ \E n \in 1..MaxVertices : initGraph(n) /\ UNCHANGED discarded /\ UNCHANGED others
    \/ \E e \in EdgeArgs, w \in Weights :
          /\ runs = 0
          /\ ValidEdge(e[1], e[2]) => EdgeCount < MaxEdges
          /\ addEdge(e[1], e[2], w)
          /\ UNCHANGED others
    \/ \E s \in Starts : runs < MaxRuns /\ runBFS(s) /\ UNCHANGED others
    \/ \E s \in Starts : runs < MaxRuns /\ runDFS(s) /\ UNCHANGED others
    \/ \E s \in Starts : runs < MaxRuns /\ runPrims(s) /\ UNCHANGED others
    \/ \E s \in Starts : runs < MaxRuns /\ runDijkstra(s) /\ UNCHANGED others

Spec == Init /\ [][Next]_vars

\* A session on the largest graph in which every addEdge call carries a larger
\* weight than the one before: the first MaxEdges calls join any two distinct
\* vertices, the later ones insert the edge 0 - 1 again, up to MaxReinserts
\* calls in all; then one algorithm runs.
ReinsertPairs ==
    IF EdgeCount < MaxEdges
    THEN {e \in Vertex(vertices) \X Vertex(vertices) : e[1] < e[2]}
    ELSE {e \in {<<0, 1>>} : vertices >= 2}

NextReinsert ==
    \/ initGraph(MaxVertices) /\ UNCHANGED discarded /\ UNCHANGED others
    \/ \E e \in ReinsertPairs :
          /\ globalGraph /\ runs = 0 /\ EdgeCount < MaxReinserts
          /\ addEdge(e[1], e[2], EdgeCount + 1)
          /\ UNCHANGED others
    \/ \E s \in Starts : globalGraph /\ runs = 0 /\ runBFS(s) /\ UNCHANGED others
    \/ \E s \in Starts : globalGraph /\ runs = 0 /\ runDFS(s) /\ UNCHANGED others
    \/ \E s \in Starts : globalGraph /\ runs = 0 /\ runPrims(s) /\ UNCHANGED others
    \/ \E s \in Starts : globalGraph /\ runs = 0 /\ runDijkstra(s) /\ UNCHANGED others

SpecReinsert == Init /\ [][NextReinsert]_vars

\* Sessions that follow one another: a graph of up to MaxDiscarded edges of
\* weight 1, one algorithm call, then the next initGraph, which deletes it.
NextLifecycle ==
    \/ \E n \in 1..MaxVertices : initGraph(n) /\ discarded' = EdgeCount /\ UNCHANGED others
    \/ \E e \in Vertex(vertices) \X Vertex(vertices) :
          /\ globalGraph
          /\ runs = 0
          /\ EdgeCount < MaxDiscarded
          /\ addEdge(e[1], e[2], 1)
          /\ UNCHANGED others
    \/ \E s \in Starts : globalGraph /\ runs = 0 /\ runBFS(s) /\ UNCHANGED others
    \/ \E s \in Starts : globalGraph /\ runs = 0 /\ runDFS(s) /\ UNCHANGED others
    \/ \E s \in Starts : globalGraph /\ runs = 0 /\ runPrims(s) /\ UNCHANGED others
    \/ \E s \in Starts : globalGraph /\ runs = 0 /\ runDijkstra(s) /\ UNCHANGED others

SpecLifecycle == Init /\ [][NextLifecycle]_vars

\* Every entry point of the bridge, before and after the first initGraph: up
\* to MaxRuns algorithm calls and, on a graph, up to MaxDiscarded edges of
\* weight 1.
NextBridge ==
    \/ \E n \in 1..MaxVertices : initGraph(n) /\ UNCHANGED discarded /\ UNCHANGED others
    \/ \E e \in EdgeArgs :
          /\ runs = 0
          /\ ValidEdge(e[1], e[2]) => EdgeCount < MaxDiscarded
          /\ addEdge(e[1], e[2], 1)
          /\ UNCHANGED others
    \/ getResultBuffer /\ UNCHANGED <<isGraphReady, nodes, isWeighted, frame>>
    \/ \E s \in Starts : runs < MaxRuns /\ runBFS(s) /\ UNCHANGED others
    \/ \E s \in Starts : runs < MaxRuns /\ runDFS(s) /\ UNCHANGED others
    \/ \E s \in Starts : runs < MaxRuns /\ runPrims(s) /\ UNCHANGED others
    \/ \E s \in Starts : runs < MaxRuns /\ runDijkstra(s) /\ UNCHANGED others

SpecBridge == Init /\ [][NextBridge]_vars

(* ------------------- the algorithms, one iteration at a time ----------- *)
\* The locals of the call in progress.  alg is the member function,
\* startIndex its argument, entry the buffer as the call found it, q, s and h
\* its queue, stack or heap, visited, key and count its arrays and counter
\* (the buffer of the call is outputBuffer itself).  History: lost counts the
\* InsertKey calls that stored nothing, done lists the vertices whose chain
\* was scanned (Dijkstra) or that were finalized (Prim), oldest first, stale
\* says that the last vertex popped by DFS was visited already, pushed how
\* many vertices that iteration pushed, owed the unvisited neighbour whose
\* record was last in the chain of the vertex DFS appended last (-1: none).
Locals(alg, startIndex) ==
    [alg |-> alg, startIndex |-> startIndex, entry |-> outputBuffer,
     q |-> <<>>, s |-> <<>>, h |-> Heap_new(0),
     visited |-> NoneVisited(vertices), key |-> [i \in Vertex(vertices) |-> INT_MAX],
     count |-> 0, lost |-> 0, done |-> <<>>, stale |-> FALSE, pushed |-> 0, owed |-> -1]

\* the destination of the last record of the chain that is not visited
LastUnvisited(chain, visited) ==
    LET open == {i \in DOMAIN chain : ~visited[chain[i].destination]}
    IN  IF open = {} THEN -1
        ELSE chain[CHOOSE i \in open : \A j \in open : j <= i].destination

\* BFS up to its while loop
CallBFS(startIndex) ==
    /\ frame' = [Locals("BFS", startIndex) EXCEPT
                    !.visited = [@ EXCEPT ![startIndex] = TRUE],
                    !.q = Queue_enqueue(<<>>, startIndex)]
    /\ UNCHANGED <<bridge, standalone, isGraphReady, nodes, isWeighted, returned>>

\* one iteration of the while loop of BFS
BFSIteration ==
    /\ frame.alg = "BFS"
    /\ ~Queue_isEmpty(frame.q)
    /\ LET currVertex == Queue_getFront(frame.q)
           sc == BFSScan(AdjList_getHead(array[currVertex]), 1, frame.visited,
                         Queue_dequeue(frame.q))
       IN  /\ outputBuffer' = [outputBuffer EXCEPT ![frame.count] = currVertex]
           /\ frame' = [frame EXCEPT !.count = @ + 1, !.q = sc.q, !.visited = sc.visited]
    /\ UNCHANGED <<globalGraph, vertices, array, AdjMat, lastCall, runs, edgeLog,
                   dropped, discarded>>
    /\ UNCHANGED <<standalone, isGraphReady, nodes, isWeighted, returned>>

\* DFS up to its while loop
CallDFS(startIndex) ==
    /\ frame' = [Locals("DFS", startIndex) EXCEPT !.s = Stack_push(<<>>, startIndex)]
    /\ UNCHANGED <<bridge, standalone, isGraphReady, nodes, isWeighted, returned>>

\* iteration of DFS that leaves an already visited vertex on the stack
DFSIteration_keepStale ==
    /\ frame.alg = "DFS"
    /\ ~Stack_isEmpty(frame.s)
    /\ LET currVertex == Stack_top(frame.s)
           fresh == ~frame.visited[currVertex]
           visited1 == [frame.visited EXCEPT ![currVertex] = TRUE]
           chain == AdjList_getHead(array[currVertex])
           s1 == IF fresh THEN DFSScan(chain, 1, visited1, Stack_pop(frame.s)) ELSE frame.s
       IN  /\ outputBuffer' = IF fresh
                              THEN [outputBuffer EXCEPT ![frame.count] = currVertex]
                              ELSE outputBuffer
           /\ frame' = [frame EXCEPT
                           !.count = IF fresh THEN @ + 1 ELSE @,
                           !.visited = visited1,
                           !.s = s1,
                           !.stale = ~fresh,
                           !.pushed = Len(s1) - Len(Stack_pop(frame.s)),
                           !.owed = IF fresh THEN LastUnvisited(chain, visited1) ELSE @]
    /\ UNCHANGED <<globalGraph, vertices, array, AdjMat, lastCall, runs, edgeLog,
                   dropped, discarded>>
    /\ UNCHANGED <<standalone, isGraphReady, nodes, isWeighted, returned>>

\* one iteration of the while loop of DFS
DFSIteration ==
    /\ frame.alg = "DFS"
    /\ ~Stack_isEmpty(frame.s)
    /\ LET currVertex == Stack_top(frame.s)
           popped == Stack_pop(frame.s)
           fresh == ~frame.visited[currVertex]
           visited1 == [frame.visited EXCEPT ![currVertex] = TRUE]
           chain == AdjList_getHead(array[currVertex])
           s1 == DFSScan(chain, 1, visited1, popped)
       IN  /\ outputBuffer' = IF fresh
                              THEN [outputBuffer EXCEPT ![frame.count] = currVertex]
                              ELSE outputBuffer
           /\ frame' = [frame EXCEPT
                           !.count = IF fresh THEN @ + 1 ELSE @,
                           !.visited = visited1,
                           !.s = s1,
                           !.stale = ~fresh,
                           !.pushed = Len(s1) - Len(popped),
                           !.owed = IF fresh THEN LastUnvisited(chain, visited1) ELSE @]
    /\ UNCHANGED <<globalGraph, vertices, array, AdjMat, lastCall, runs, edgeLog,
                   dropped, discarded>>
    /\ UNCHANGED <<standalone, isGraphReady, nodes, isWeighted, returned>>

\* PrimsAlgorithm up to its while loop
CallPrims(startIndex) ==
    /\ outputBuffer' = [i \in Vertex(vertices) |-> -1]
    /\ frame' = [Locals("PrimsAlgorithm", startIndex) EXCEPT
                    !.key = [@ EXCEPT ![startIndex] = 0],
                    !.h = Heap_InsertKey(Heap_new(vertices * vertices), startIndex, 0),
                    !.lost = Dropped(Heap_new(vertices * vertices))]
    /\ UNCHANGED <<globalGraph, vertices, array, AdjMat, lastCall, runs, edgeLog,
                   dropped, discarded>>
    /\ UNCHANGED <<standalone, isGraphReady, nodes, isWeighted, returned>>

\* one iteration of the while loop of PrimsAlgorithm
PrimIteration ==
    /\ frame.alg = "PrimsAlgorithm"
    /\ ~Heap_isEmpty(frame.h)
    /\ LET ex == Heap_ExtractMin(frame.h)
           u == ex.minNode.vertex
       IN  IF frame.visited[u]
           THEN /\ frame' = [frame EXCEPT !.h = ex.heap]
                /\ UNCHANGED outputBuffer
           ELSE LET visited1 == [frame.visited EXCEPT ![u] = TRUE]
                    sc == PrimScan(AdjList_getHead(array[u]), 1, u, visited1, frame.key,
                                   outputBuffer, ex.heap, frame.lost)
                IN  /\ outputBuffer' = sc.parentBuffer
                    /\ frame' = [frame EXCEPT !.h = sc.h, !.key = sc.key,
                                              !.visited = visited1, !.lost = sc.lost,
                                              !.done = Append(@, u)]
    /\ UNCHANGED <<globalGraph, vertices, array, AdjMat, lastCall, runs, edgeLog,
                   dropped, discarded>>
    /\ UNCHANGED <<standalone, isGraphReady, nodes, isWeighted, returned>>

\* DijkstraAlgorithm up to its while loop
CallDijkstra(startIndex) ==
    /\ outputBuffer' = [[i \in Vertex(vertices) |-> INT_MAX] EXCEPT ![startIndex] = 0]
    /\ frame' = [Locals("DijkstraAlgorithm", startIndex) EXCEPT
                    !.h = Heap_InsertKey(Heap_new(vertices * vertices), startIndex, 0),
                    !.lost = Dropped(Heap_new(vertices * vertices))]
    /\ UNCHANGED <<globalGraph, vertices, array, AdjMat, lastCall, runs, edgeLog,
                   dropped, discarded>>
    /\ UNCHANGED <<standalone, isGraphReady, nodes, isWeighted, returned>>

\* iteration of DijkstraAlgorithm without the guard d > distBuffer[u]
DijkstraIteration_noGuard ==
    /\ frame.alg = "DijkstraAlgorithm"
    /\ ~Heap_isEmpty(frame.h)
    /\ LET ex == Heap_ExtractMin(frame.h)
           u == ex.minNode.vertex
           sc == DijkstraScan(AdjList_getHead(array[u]), 1, u, outputBuffer, ex.heap,
                              frame.lost)
       IN  /\ outputBuffer' = sc.distBuffer
           /\ frame' = [frame EXCEPT !.h = sc.h, !.lost = sc.lost, !.done = Append(@, u)]
    /\ UNCHANGED <<globalGraph, vertices, array, AdjMat, lastCall, runs, edgeLog,
                   dropped, discarded>>
    /\ UNCHANGED <<standalone, isGraphReady, nodes, isWeighted, returned>>

\* one iteration of the while loop of DijkstraAlgorithm
DijkstraIteration ==
    /\ frame.alg = "DijkstraAlgorithm"
    /\ ~Heap_isEmpty(frame.h)
    /\ LET ex == Heap_ExtractMin(frame.h)
           u == ex.minNode.vertex
           d == ex.minNode.key
       IN  IF d > outputBuffer[u]
           THEN /\ frame' = [frame EXCEPT !.h = ex.heap]
                /\ UNCHANGED outputBuffer
           ELSE LET sc == DijkstraScan(AdjList_getHead(array[u]), 1, u, outputBuffer,
                                       ex.heap, frame.lost)
                IN  /\ outputBuffer' = sc.distBuffer
                    /\ frame' = [frame EXCEPT !.h = sc.h, !.lost = sc.lost,
                                              !.done = Append(@, u)]
    /\ UNCHANGED <<globalGraph, vertices, array, AdjMat, lastCall, runs, edgeLog,
                   dropped, discarded>>
    /\ UNCHANGED <<standalone, isGraphReady, nodes, isWeighted, returned>>

\* the loop of the call in progress has ended
Finished ==
    /\ frame.alg # "none"
    /\ Queue_isEmpty(frame.q)
    /\ Stack_isEmpty(frame.s)
    /\ Heap_isEmpty(frame.h)

\* the call in progress returns to the caller of the bridge function
Return ==
    /\ Finished
    /\ lastCall' = Call(CASE frame.alg = "BFS" -> "runBFS"
                          [] frame.alg = "DFS" -> "runDFS"
                          [] frame.alg = "PrimsAlgorithm" -> "runPrims"
                          [] frame.alg = "DijkstraAlgorithm" -> "runDijkstra",
                        frame.startIndex, 0, 0, frame.count)
    /\ runs' = runs + 1
    /\ dropped' = IF frame.alg \in {"PrimsAlgorithm", "DijkstraAlgorithm"}
                  THEN frame.lost ELSE dropped
    /\ frame' = Idle
    /\ UNCHANGED <<globalGraph, vertices, array, AdjMat, outputBuffer, edgeLog, discarded>>
    /\ UNCHANGED <<standalone, isGraphReady, nodes, isWeighted, returned>>

\* One call at a time: a graph of up to MaxEdges edges of weight 0..MaxStepWeight
\* is built while no call is in progress, then one algorithm is called and runs iteration by
\* iteration until it returns.
NextSteps ==
    \/ \E n \in 1..MaxVertices :
          frame = Idle /\ initGraph(n) /\ UNCHANGED discarded /\ UNCHANGED others
    \/ \E e \in Vertex(vertices) \X Vertex(vertices), w \in 0..MaxStepWeight :
          /\ frame = Idle /\ globalGraph /\ runs = 0 /\ EdgeCount < MaxEdges
          /\ e[1] <= e[2]
          /\ addEdge(e[1], e[2], w)
          /\ UNCHANGED others
    \/ \E startIndex \in Starts :
          frame = Idle /\ globalGraph /\ runs = 0 /\ CallBFS(startIndex)
    \/ \E startIndex \in Starts :
          frame = Idle /\ globalGraph /\ runs = 0 /\ CallDFS(startIndex)
    \/ \E startIndex \in Starts :
          frame = Idle /\ globalGraph /\ runs = 0 /\ CallPrims(startIndex)
    \/ \E startIndex \in Starts :
          frame = Idle /\ globalGraph /\ runs = 0 /\ CallDijkstra(startIndex)
    \/ BFSIteration
    \/ DFSIteration
    \/ PrimIteration
    \/ DijkstraIteration
    \/ Return

SpecSteps == Init /\ [][NextSteps]_vars

\* a call that was made keeps executing: its loop iterates and, when the loop
\* has ended, the call returns
SpecStepsFair ==
    SpecSteps /\ WF_vars(BFSIteration \/ DFSIteration \/ PrimIteration
                             \/ DijkstraIteration \/ Return)

(* --------------------------- front end (script.js) --------------------- *)
\* the algorithm buttons, and one button that is none of them
Types == {"bfs", "dfs", "prim", "dijkstra", "other"}

\* the nodes array after initGraph: one node per vertex, without edges
NewNodes(vCount) == [i \in Vertex(vCount) |-> [id |-> i, edges |-> <<>>]]

\* inner forEach of isGraphConnected over the edges of u
RECURSIVE ConnectedScan(_, _, _)
ConnectedScan(edges, i, st) ==
    IF i > Len(edges)
    THEN st
    ELSE IF ~st.visited[edges[i].to]
         THEN ConnectedScan(edges, i + 1,
                            [visited |-> [st.visited EXCEPT ![edges[i].to] = TRUE],
                             visitedCount |-> st.visitedCount + 1,
                             queue |-> Append(st.queue, edges[i].to)])
         ELSE ConnectedScan(edges, i + 1, st)

\* while loop of isGraphConnected
RECURSIVE ConnectedLoop(_)
ConnectedLoop(st) ==
    IF Len(st.queue) = 0
    THEN st.visitedCount
    ELSE LET u == Head(st.queue)
         IN  ConnectedLoop(ConnectedScan(nodes[u].edges, 1,
                                         [st EXCEPT !.queue = Tail(st.queue)]))

isGraphConnected(startNode) ==
    IF DOMAIN nodes = {}
    THEN FALSE
    ELSE ConnectedLoop([visited |-> [[i \in DOMAIN nodes |-> FALSE] EXCEPT ![startNode] = TRUE],
                        visitedCount |-> 1,
                        queue |-> <<startNode>>]) = Cardinality(DOMAIN nodes)

\* a snapshot of the animation
Snapshot(node, struct, text, arg) ==
    [node |-> node, struct |-> struct, text |-> text, arg |-> arg]

\* inner forEach of getBFSSnapshots over the edges of u
RECURSIVE SnapshotScan(_, _, _, _)
SnapshotScan(edges, i, u, st) ==
    IF i > Len(edges)
    THEN st
    ELSE IF ~st.visited[edges[i].to]
         THEN LET pushed == Append(st.queue, edges[i].to)
              IN  SnapshotScan(edges, i + 1, u,
                      [visited |-> [st.visited EXCEPT ![edges[i].to] = TRUE],
                       queue |-> pushed,
                       snapshots |-> Append(st.snapshots,
                                            Snapshot(u, <<u>> \o pushed, "Queued", edges[i].to))])
         ELSE SnapshotScan(edges, i + 1, u, st)

\* while loop of getBFSSnapshots
RECURSIVE SnapshotLoop(_)
SnapshotLoop(st) ==
    IF Len(st.queue) = 0
    THEN st.snapshots
    ELSE LET u == Head(st.queue)
             shifted == Tail(st.queue)
             sc == SnapshotScan(nodes[u].edges, 1, u,
                       [st EXCEPT !.queue = shifted,
                                  !.snapshots = Append(@, Snapshot(u, <<u>> \o shifted,
                                                                   "Visiting", u))])
         IN  SnapshotLoop([sc EXCEPT !.snapshots =
                              Append(@, Snapshot(u, sc.queue, "Finished", u))])

getBFSSnapshots(startNode) ==
    SnapshotLoop([visited |-> [[i \in DOMAIN nodes |-> FALSE] EXCEPT ![startNode] = TRUE],
                  queue |-> <<startNode>>,
                  snapshots |-> <<Snapshot(-1, <<startNode>>, "Start", -1)>>])

\* the button Initialize: the engine is called first, then the nodes are laid out
clickInitGraph(vCount) ==
    /\ initGraph(vCount)
    /\ nodes' = NewNodes(vCount)
    /\ isGraphReady' = TRUE
    /\ UNCHANGED <<discarded, isWeighted, frame, returned>>

\* the button Add Edge with the parsed inputs u, v and w
clickAddEdge(u, v, w) ==
    IF ~isGraphReady
    THEN UNCHANGED vars
    ELSE IF u < 0 \/ v < 0 \/ u >= Cardinality(DOMAIN nodes) \/ v >= Cardinality(DOMAIN nodes)
         THEN UNCHANGED vars
         ELSE /\ addEdge(u, v, IF isWeighted THEN w ELSE 1)
              /\ nodes' =
                    IF \E i \in DOMAIN nodes[u].edges : nodes[u].edges[i].to = v
                    THEN nodes
                    ELSE LET edge(to) == [to |-> to, weight |-> IF isWeighted THEN w ELSE 1]
                             n1 == [nodes EXCEPT ![u].edges = Append(@, edge(v))]
                         IN  [n1 EXCEPT ![v].edges = Append(@, edge(u))]
              /\ UNCHANGED <<isGraphReady, isWeighted, frame, returned>>

\* the switch between weighted and unweighted
toggleWeight ==
    /\ isWeighted' = ~isWeighted
    /\ UNCHANGED <<bridge, standalone, isGraphReady, nodes, frame, returned>>

\* the engine call of runAlgorithm for the button pressed
Execute(type, startNode) ==
    /\ returned' = ResultBuffer
    /\ CASE type = "bfs" -> runBFS(startNode)
         [] type = "dfs" -> runDFS(startNode)
         [] type = "prim" -> runPrims(startNode)
         [] type = "dijkstra" -> runDijkstra(startNode)
         [] OTHER -> /\ lastCall' = Call("getResultBuffer", 0, 0, 0, 0)
                     /\ UNCHANGED <<globalGraph, vertices, array, AdjMat, outputBuffer,
                                    runs, edgeLog, dropped, discarded>>
                     /\ UNCHANGED standalone
    /\ UNCHANGED <<isGraphReady, nodes, isWeighted, frame>>

\* runAlgorithm that does not ask whether the graph is connected
runAlgorithm_anyGraph(type, startNode) ==
    IF ~isGraphReady
    THEN UNCHANGED vars
    ELSE IF type \in {"prim", "dijkstra"} /\ ~isWeighted
         THEN UNCHANGED vars
         ELSE IF startNode < 0 \/ startNode >= Cardinality(DOMAIN nodes)
              THEN UNCHANGED vars
              ELSE Execute(type, startNode)

\* an algorithm button with the parsed start vertex
runAlgorithm(type, startNode) ==
    IF ~isGraphReady
    THEN UNCHANGED vars
    ELSE IF type \in {"prim", "dijkstra"} /\ ~isWeighted
         THEN UNCHANGED vars
         ELSE IF startNode < 0 \/ startNode >= Cardinality(DOMAIN nodes)
              THEN UNCHANGED vars
              ELSE IF ~isGraphConnected(startNode)
                   THEN UNCHANGED vars
                   ELSE Execute(type, startNode)

\* what the user may enter as a vertex: every vertex, one below, one above
Entries == (-1)..MaxVertices

\* A user at the page: up to MaxEdges edges per graph, up to MaxRuns engine
\* calls per graph, no edge after the first of them.
NextFrontEnd ==
    \/ \E vCount \in 0..MaxVertices : clickInitGraph(vCount)
    \/ \E u, v \in Entries, w \in Weights :
          /\ runs = 0
          /\ EdgeCount < MaxEdges
          /\ clickAddEdge(u, v, w)
    \/ toggleWeight
    \/ \E type \in Types, startNode \in Entries :
          /\ runs < MaxRuns
          /\ runAlgorithm(type, startNode)

SpecFrontEnd == Init /\ [][NextFrontEnd]_vars

(* ------------------------- the heap on its own ------------------------- *)
\* Heap(cap): a new heap replaces the old one
NewHeap(cap) ==
    /\ heap' = Heap_new(cap)
    /\ heapCall' = HeapCall("Heap", cap, 0, HNode(0, 0), heap)
    /\ UNCHANGED <<bridge, others, stack, queue, calls>>

InsertKey(v, k) ==
    /\ heap' = Heap_InsertKey(heap, v, k)
    /\ heapCall' = HeapCall("InsertKey", v, k, HNode(0, 0), heap)
    /\ UNCHANGED <<bridge, others, stack, queue, calls>>

ExtractMin ==
    /\ LET ex == Heap_ExtractMin(heap)
       IN  /\ heap' = ex.heap
           /\ heapCall' = HeapCall("ExtractMin", 0, 0, ex.minNode, heap)
    /\ UNCHANGED <<bridge, others, stack, queue, calls>>

NextHeap ==
    \/ \E cap \in 0..MaxCapacity : NewHeap(cap)
    \/ \E v \in 0..MaxHeapVertex, k \in 0..MaxKey : InsertKey(v, k)
    \/ ExtractMin

SpecHeap == Init /\ [][NextHeap]_vars

(* ------------------- the stack and the queue on their own -------------- *)
\* history of the two containers: the last Remembered calls, oldest first,
\* each with its argument, what it returned and the container it was called on
ContainerCall(op, arg, ret, before) ==
    [op |-> op, arg |-> arg, ret |-> ret, before |-> before]
Remember(c) ==
    IF Len(calls) < Remembered THEN Append(calls, c) ELSE Append(Tail(calls), c)

\* the addresses `new` may return
Free(node) == (1..MaxNodes) \ DOMAIN node

push(v) ==
    /\ \E newNode \in Free(stack.node) :
          stack' = IF stack.front = NULL
                   THEN [front |-> newNode,
                         node |-> Allocate(stack.node, newNode, v, NULL)]
                   ELSE [front |-> newNode,
                         node |-> Allocate(stack.node, newNode, v, stack.front)]
    /\ calls' = Remember(ContainerCall("push", v, NULL, stack))
    /\ UNCHANGED <<bridge, others, heap, heapCall, queue>>

pop ==
    /\ stack' = IF stack.front = NULL
                THEN stack
                ELSE [front |-> stack.node[stack.front].next,
                      node |-> Delete(stack.node, stack.front)]
    /\ calls' = Remember(ContainerCall("pop", NULL, NULL, stack))
    /\ UNCHANGED <<bridge, others, heap, heapCall, queue>>

top ==
    /\ calls' = Remember(ContainerCall("top", NULL,
                    IF stack.front # NULL THEN stack.node[stack.front].data ELSE NULL,
                    stack))
    /\ UNCHANGED <<bridge, others, heap, heapCall, stack, queue>>

enqueue(v) ==
    /\ \E newNode \in Free(queue.node) :
          queue' = IF queue.rear = NULL
                   THEN [front |-> newNode, rear |-> newNode,
                         node |-> Allocate(queue.node, newNode, v, NULL)]
                   ELSE [front |-> queue.front, rear |-> newNode,
                         node |-> Allocate(
                             [x \in DOMAIN queue.node |->
                                 IF x = queue.rear
                                 THEN [queue.node[x] EXCEPT !.next = newNode]
                                 ELSE queue.node[x]],
                             newNode, v, NULL)]
    /\ calls' = Remember(ContainerCall("enqueue", v, NULL, queue))
    /\ UNCHANGED <<bridge, others, heap, heapCall, stack>>

\* dequeue that leaves rear pointing at the node it deletes
dequeue_rearKept ==
    /\ queue' = IF queue.front = NULL
                THEN queue
                ELSE [front |-> queue.node[queue.front].next,
                      rear |-> queue.rear,
                      node |-> Delete(queue.node, queue.front)]
    /\ calls' = Remember(ContainerCall("dequeue", NULL, NULL, queue))
    /\ UNCHANGED <<bridge, others, heap, heapCall, stack>>

dequeue ==
    /\ queue' = IF queue.front = NULL
                THEN queue
                ELSE LET next == queue.node[queue.front].next
                     IN  [front |-> next,
                          rear |-> IF next = NULL THEN NULL ELSE queue.rear,
                          node |-> Delete(queue.node, queue.front)]
    /\ calls' = Remember(ContainerCall("dequeue", NULL, NULL, queue))
    /\ UNCHANGED <<bridge, others, heap, heapCall, stack>>

getFront ==
    /\ calls' = Remember(ContainerCall("getFront", NULL,
                    IF queue.front # NULL THEN queue.node[queue.front].data ELSE NULL,
                    queue))
    /\ UNCHANGED <<bridge, others, heap, heapCall, stack, queue>>

NextContainers ==
    \/ \E v \in 1..MaxValue : push(v)
    \/ pop
    \/ top
    \/ \E v \in 1..MaxValue : enqueue(v)
    \/ dequeue
    \/ getFront

SpecContainers == Init /\ [][NextContainers]_vars

(* ------------------------ reference definitions ------------------------ *)
Range(f) == {f[i] : i \in DOMAIN f}
Records(u) == Range(array[u])
Adjacent(u) == {r.destination : r \in Records(u)}

RECURSIVE ReachFrom(_)
ReachFrom(S) ==
    LET T == S \cup UNION {Adjacent(u) : u \in S}
    IN  IF T = S THEN S ELSE ReachFrom(T)
Reachable(start) == ReachFrom({start})

\* the entries an algorithm wrote: the first k cells of the output buffer
Written(k) == {outputBuffer[i] : i \in 0..(k - 1)}

Ran(op) == globalGraph /\ lastCall.op = op

(* --------------------------- claims C1, C7 ----------------------------- *)
\* C1: immediately after a call addEdge(u, v, w) with 0 <= u, v < n, the chain
\* of u holds a record (v, w), the chain of v holds a record (u, w), and
\* AdjMat[u][v] = AdjMat[v][u] = w.
C1_AddEdgeMirrored ==
    (Ran("addEdge") /\ ValidEdge(lastCall.a, lastCall.b)) =>
        /\ Node(lastCall.b, lastCall.c) \in Records(lastCall.a)
        /\ Node(lastCall.a, lastCall.c) \in Records(lastCall.b)
        /\ AdjMat[lastCall.a][lastCall.b] = lastCall.c
        /\ AdjMat[lastCall.b][lastCall.a] = lastCall.c

C1_Witness ==
    /\ Ran("addEdge")
    /\ ValidEdge(lastCall.a, lastCall.b)
    /\ lastCall.a # lastCall.b
    /\ EdgeCount >= 2

\* C7: a call addEdge(u, v, w) with u or v outside [0, n) leaves every chain,
\* every matrix cell and everything else of the bridge as it was.
C7_OutOfRangeIgnored ==
    [][(lastCall'.op = "addEdge" /\ ~ValidEdge(lastCall'.a, lastCall'.b)) =>
          UNCHANGED <<globalGraph, vertices, array, AdjMat, outputBuffer>>]_vars

C7_Witness ==
    /\ Ran("addEdge")
    /\ ~ValidEdge(lastCall.a, lastCall.b)
    /\ lastCall.a \in Vertex(vertices)
    /\ EdgeCount >= 1

(* ------------------------ claims C2, C3, C4, C10 ----------------------- *)
\* position of vertex v among the first k cells of the output buffer
Pos(v, k) == CHOOSE i \in 0..(k - 1) : outputBuffer[i] = v

\* vertices within d hops of start
RECURSIVE Ball(_, _)
Ball(start, d) ==
    IF d = 0 THEN {start}
    ELSE LET B == Ball(start, d - 1) IN B \cup UNION {Adjacent(u) : u \in B}

HopDist(start, v) ==
    CHOOSE d \in 0..vertices : v \in Ball(start, d) /\ (d = 0 \/ v \notin Ball(start, d - 1))

\* index in edgeLog of the most recently inserted edge joining u and v
Joins(e, u, v) == (e.u = u /\ e.v = v) \/ (e.u = v /\ e.v = u)
LastInserted(u, v) ==
    CHOOSE j \in 1..Len(edgeLog) :
        /\ Joins(edgeLog[j], u, v)
        /\ \A l \in (j + 1)..Len(edgeLog) : ~Joins(edgeLog[l], u, v)

\* position in the output of the earliest written vertex adjacent to v
Discoverer(v, k) ==
    CHOOSE i \in 0..(k - 1) :
        /\ v \in Adjacent(outputBuffer[i])
        /\ \A l \in 0..(i - 1) : v \notin Adjacent(outputBuffer[l])

\* C2: BFS(start) writes every vertex reachable from start exactly once and no
\* other vertex: the k written entries are pairwise distinct, k is the number
\* of reachable vertices and the written set is the reachable set.
C2_BFSWritesReachableOnce ==
    Ran("runBFS") =>
        LET k == lastCall.count
        IN  /\ k = Cardinality(Reachable(lastCall.a))
            /\ Written(k) = Reachable(lastCall.a)
            /\ \A i, j \in 0..(k - 1) : i # j => outputBuffer[i] # outputBuffer[j]

C2_Witness ==
    /\ Ran("runBFS")
    /\ lastCall.count = 2
    /\ vertices = 3
    /\ lastCall.a \in Adjacent(lastCall.a)
    /\ Len(array[lastCall.a]) >= 4

\* C3: the BFS output is a valid BFS order consistent with insertion order:
\* hop distance from start never decreases along the output, vertices
\* discovered by an earlier dequeued vertex come before those discovered by a
\* later one, and of two vertices discovered by the same dequeued vertex the
\* one joined to it by the more recently inserted edge comes first.
C3_BFSOrder ==
    Ran("runBFS") =>
        LET k == lastCall.count
            start == lastCall.a
            Found == Written(k) \ {start}
        IN  /\ k >= 1 /\ outputBuffer[0] = start
            /\ \A i \in 0..(k - 2) :
                  HopDist(start, outputBuffer[i]) <= HopDist(start, outputBuffer[i + 1])
            /\ \A v1, v2 \in Found :
                  Discoverer(v1, k) < Discoverer(v2, k) => Pos(v1, k) < Pos(v2, k)
            /\ \A v1, v2 \in Found :
                  (Discoverer(v1, k) = Discoverer(v2, k)) =>
                      LET u == outputBuffer[Discoverer(v1, k)]
                      IN  (LastInserted(u, v1) > LastInserted(u, v2)) <=> (Pos(v1, k) < Pos(v2, k))

C3_Witness ==
    /\ Ran("runBFS")
    /\ lastCall.count = 3
    /\ Discoverer(outputBuffer[1], 3) = 0
    /\ Discoverer(outputBuffer[2], 3) = 0
    /\ outputBuffer[1] > outputBuffer[2]
    /\ LastInserted(outputBuffer[0], outputBuffer[1]) = 3
    /\ LastInserted(outputBuffer[0], outputBuffer[2]) = 2

\* C4: DFS(start) appends every vertex reachable from start exactly once and
\* never a vertex that is not reachable, repeated pairs and self-loops
\* included.
C4_DFSWritesReachableOnce ==
    Ran("runDFS") =>
        LET k == lastCall.count
        IN  /\ k = Cardinality(Reachable(lastCall.a))
            /\ Written(k) = Reachable(lastCall.a)
            /\ \A i, j \in 0..(k - 1) : i # j => outputBuffer[i] # outputBuffer[j]

\* a run on a graph with a self-loop and a repeated pair, one vertex left out
C4_Witness ==
    /\ Ran("runDFS")
    /\ lastCall.count = 2
    /\ vertices = 3
    /\ lastCall.a \in Adjacent(lastCall.a)
    /\ \E i, j \in 1..Len(array[lastCall.a]) :
          /\ i # j
          /\ array[lastCall.a][i].destination = array[lastCall.a][j].destination
          /\ array[lastCall.a][i].destination # lastCall.a

\* C10: BFS and DFS write only the first k cells of the output buffer, k the
\* number of vertices reachable from start; cells k..n-1 hold after the call
\* the values they held before it.
C10_TrailingCellsKept ==
    [][(globalGraph /\ lastCall'.op \in {"runBFS", "runDFS"}) =>
          LET k == Cardinality(Reachable(lastCall'.a))
          IN  /\ lastCall'.count = k
              /\ \A i \in Vertex(vertices) : i >= k => outputBuffer'[i] = outputBuffer[i]]_vars

\* a traversal that leaves out a vertex, after a run that left a sentinel
C10_Witness ==
    /\ Ran("runDFS")
    /\ runs = 2
    /\ lastCall.count < vertices
    /\ outputBuffer[vertices - 1] \in {-1, INT_MAX}

(* ------------------------- claims C5, C6, C8, C9 ----------------------- *)
Min(S) == CHOOSE x \in S : \A y \in S : x <= y

\* weight of the lightest record joining u and v
MinWeight(u, v) == Min({r.weight : r \in {x \in Records(u) : x.destination = v}})

\* simple paths from s to t, as sequences of vertices
SimplePaths(s, t) ==
    {p \in UNION {[1..m -> Vertex(vertices)] : m \in 1..vertices} :
        /\ p[1] = s
        /\ p[Len(p)] = t
        /\ \A i, j \in 1..Len(p) : i # j => p[i] # p[j]
        /\ \A i \in 1..(Len(p) - 1) : p[i + 1] \in Adjacent(p[i])}

RECURSIVE PathWeight(_, _)
PathWeight(p, i) ==
    IF i >= Len(p) THEN 0 ELSE MinWeight(p[i], p[i + 1]) + PathWeight(p, i + 1)

\* minimum total weight over all paths from s to t (t reachable from s)
ShortestWeight(s, t) == Min({PathWeight(p, 1) : p \in SimplePaths(s, t)})

\* following parent pointers from v reaches start within steps moves
RECURSIVE Climbs(_, _, _, _)
Climbs(p, v, start, steps) ==
    \/ v = start
    \/ /\ steps > 0
       /\ v \in DOMAIN p
       /\ Climbs(p, p[v], start, steps - 1)

\* spanning trees of the component of start, as parent maps rooted at start
SpanningTrees(start) ==
    LET Comp == Reachable(start)
    IN  {p \in [Comp \ {start} -> Comp] :
            \A v \in Comp \ {start} :
                /\ p[v] # v
                /\ p[v] \in Adjacent(v)
                /\ Climbs(p, v, start, vertices)}

RECURSIVE TreeWeight(_, _)
TreeWeight(p, S) ==
    IF S = {} THEN 0
    ELSE LET v == CHOOSE x \in S : TRUE
         IN  MinWeight(v, p[v]) + TreeWeight(p, S \ {v})

MSTWeight(start) == Min({TreeWeight(p, DOMAIN p) : p \in SpanningTrees(start)})

\* the tree runPrims left in the output buffer
PrimTree == [v \in {x \in Vertex(vertices) : outputBuffer[x] # -1} |-> outputBuffer[v]]

\* C5: after DijkstraAlgorithm(start, distBuffer) on a graph with
\* non-negative weights, distBuffer[v] of every vertex v reachable from start
\* is the minimum total weight over all paths from start to v.
C5_DijkstraShortest ==
    Ran("runDijkstra") =>
        \A v \in Reachable(lastCall.a) : outputBuffer[v] = ShortestWeight(lastCall.a, v)

\* C6: after PrimsAlgorithm(start, parentBuffer) the edges {v, parentBuffer[v]}
\* with parentBuffer[v] # -1 form a spanning tree of the component of start
\* whose total weight is the minimum spanning tree weight of that component.
C6_PrimMinimumSpanningTree ==
    Ran("runPrims") =>
        /\ PrimTree \in SpanningTrees(lastCall.a)
        /\ TreeWeight(PrimTree, DOMAIN PrimTree) = MSTWeight(lastCall.a)

\* C8: after PrimsAlgorithm(start, parentBuffer), parentBuffer[start] = -1 and
\* parentBuffer[v] = -1 for every vertex v not reachable from start.
C8_PrimSentinels ==
    Ran("runPrims") =>
        /\ outputBuffer[lastCall.a] = -1
        /\ \A v \in Vertex(vertices) \ Reachable(lastCall.a) : outputBuffer[v] = -1

\* a run from a start that has a neighbour and a self-loop, one vertex left out
C8_Witness ==
    /\ Ran("runPrims")
    /\ Cardinality(Reachable(lastCall.a)) = 2
    /\ vertices = 3
    /\ lastCall.a \in Adjacent(lastCall.a)
    /\ \E v \in Vertex(vertices) : outputBuffer[v] = lastCall.a

\* C9: after DijkstraAlgorithm(start, distBuffer) on a graph with non-negative
\* weights, distBuffer[start] = 0 and distBuffer[v] = INT_MAX for every vertex
\* v not reachable from start.
C9_DijkstraSentinels ==
    Ran("runDijkstra") =>
        /\ outputBuffer[lastCall.a] = 0
        /\ \A v \in Vertex(vertices) \ Reachable(lastCall.a) : outputBuffer[v] = INT_MAX

\* a run that reaches one vertex and leaves another out
C9_Witness ==
    /\ Ran("runDijkstra")
    /\ Cardinality(Reachable(lastCall.a)) = 2
    /\ vertices = 3
    /\ lastCall.a \in Adjacent(lastCall.a)
    /\ \E v \in Vertex(vertices) : outputBuffer[v] \in 1..MaxWeight

(* ------------------------ claims C11, C12, C20 ------------------------- *)
AlgOps == {"runBFS", "runDFS", "runPrims", "runDijkstra"}

\* C11: no algorithm changes the topology: every call of BFS, DFS,
\* PrimsAlgorithm or DijkstraAlgorithm leaves the vertex count, every chain
\* (records and order) and every matrix cell as they were.
C11_TopologyKept ==
    [][lastCall'.op \in AlgOps => UNCHANGED <<globalGraph, vertices, array, AdjMat>>]_vars

\* each of the four algorithms has run on a graph with repeated or several edges
C11_Witness ==
    /\ Ran("runPrims")
    /\ runs = 2
    /\ EdgeCount = MaxEdges
    /\ \E u, v \in Vertex(vertices) : u # v /\ AdjMat[u][v] # 0

\* C12: a runBFS(start) that directly follows a runBFS(start) on the same
\* graph leaves the output buffer as the first one left it.
C12_BFSIdempotent ==
    [][(globalGraph /\ lastCall.op = "runBFS" /\ lastCall'.op = "runBFS"
           /\ lastCall'.a = lastCall.a /\ array' = array)
          => outputBuffer' = outputBuffer]_vars

\* the second of two equal runs, on a graph where it writes two cells of three
C12_Witness ==
    /\ Ran("runBFS")
    /\ runs = 2
    /\ lastCall.count = 2
    /\ vertices = 3
    /\ outputBuffer[0] = lastCall.a
    /\ outputBuffer[1] \in Vertex(vertices) \ {lastCall.a}
    /\ outputBuffer[2] \in {g * 3 : g \in Uninit}

\* the records the accepted addEdge calls put on the chain of u, newest first
RECURSIVE ExpectedChain(_, _)
ExpectedChain(u, j) ==
    IF j = 0 THEN <<>>
    ELSE LET e == edgeLog[j]
             new == IF e.u = u /\ e.v = u THEN <<Node(u, e.w), Node(u, e.w)>>
                    ELSE IF e.u = u THEN <<Node(e.v, e.w)>>
                    ELSE IF e.v = u THEN <<Node(e.u, e.w)>>
                    ELSE <<>>
         IN  new \o ExpectedChain(u, j - 1)

\* C20: an AdjList is traversed newest first: after AddEdge calls e1, ..., ek
\* on one list the records from getHead() on are ek, ..., e1, and getHead() is
\* null exactly when no AddEdge was made on the list.
C20_ChainNewestFirst ==
    globalGraph =>
        \A u \in Vertex(vertices) :
            /\ AdjList_getHead(array[u]) = ExpectedChain(u, Len(edgeLog))
            /\ (AdjList_getHead(array[u]) = <<>>) <=>
                   (\A j \in 1..Len(edgeLog) : edgeLog[j].u # u /\ edgeLog[j].v # u)

\* a chain of three records, each different from the one after it, beside a
\* chain that is still empty
C20_Witness ==
    /\ globalGraph
    /\ vertices = 3
    /\ Len(array[0]) = 3
    /\ array[0][1] # array[0][2]
    /\ array[0][2] # array[0][3]
    /\ \E u \in Vertex(vertices) : array[u] = <<>>

(* ------------------------------ claim C13 ------------------------------ *)
\* the graph that the accepted addEdge calls since the last initGraph build on
\* a new Graph(vertices)
RECURSIVE Replayed(_)
Replayed(j) ==
    IF j = 0
    THEN [array |-> Graph_array(vertices), AdjMat |-> Graph_AdjMat(vertices)]
    ELSE LET g == Replayed(j - 1)
         IN  Graph_addEdge(vertices, g.array, g.AdjMat,
                           edgeLog[j].u, edgeLog[j].v, edgeLog[j].w)

\* C13: initGraph(n) discards all earlier state: after it the graph has n
\* vertices, every chain is empty and every matrix cell is 0; from then on the
\* graph is what the addEdge calls made since build, and an algorithm call
\* leaves what it leaves on that graph, so no earlier edge plays a part.
C13_InitGraphDiscards ==
    /\ lastCall.op = "initGraph" =>
          /\ globalGraph
          /\ vertices = lastCall.a
          /\ DOMAIN array = Vertex(lastCall.a)
          /\ \A u \in Vertex(lastCall.a) : array[u] = <<>>
          /\ AdjMat = [u \in Vertex(lastCall.a) |-> [v \in Vertex(lastCall.a) |-> 0]]
    /\ globalGraph =>
          LET g == Replayed(Len(edgeLog))
          IN  /\ array = g.array
              /\ AdjMat = g.AdjMat
              /\ Ran("runBFS") =>
                    outputBuffer = BFS(vertices, g.array, lastCall.a, outputBuffer).buffer
              /\ Ran("runDFS") =>
                    outputBuffer = DFS(vertices, g.array, lastCall.a, outputBuffer).buffer
              /\ Ran("runPrims") =>
                    outputBuffer = PrimsAlgorithm(vertices, g.array, lastCall.a,
                                                  outputBuffer).parentBuffer
              /\ Ran("runDijkstra") =>
                    outputBuffer = DijkstraAlgorithm(vertices, g.array, lastCall.a,
                                                     outputBuffer).distBuffer

\* a graph with edges was deleted by an initGraph of the same vertex count, the
\* new graph got one edge and Dijkstra ran on it, leaving a vertex unreached
C13_Witness ==
    /\ discarded = MaxDiscarded
    /\ Ran("runDijkstra")
    /\ vertices = 3
    /\ EdgeCount = 1
    /\ \E v \in Vertex(vertices) : outputBuffer[v] = INT_MAX

(* ---------------------------- claims C14..C18 -------------------------- *)
HNodes == {HNode(v, k) : v \in 0..MaxHeapVertex, k \in 0..MaxKey}
\* the number of slots 1..size that hold entry e
Count(arr, e) == Cardinality({i \in DOMAIN arr : arr[i] = e})

\* C14: after any sequence of InsertKey and ExtractMin calls the array has the
\* min-heap property: arr[i / 2].key <= arr[i].key for every 2 <= i <= size.
C14_MinHeapProperty ==
    \A i \in 2..Len(heap.arr) : heap.arr[i \div 2].key <= heap.arr[i].key

\* an ExtractMin on a full heap of four entries left three with a strictly
\* smallest root
C14_Witness ==
    /\ heapCall.op = "ExtractMin"
    /\ Len(heapCall.before.arr) = 4
    /\ Len(heap.arr) = 3
    /\ heap.arr[1].key < heap.arr[2].key
    /\ heap.arr[1].key < heap.arr[3].key
    /\ heap.arr[3].key < heap.arr[2].key

\* C15: ExtractMin on a non-empty heap returns an entry whose key is <= every
\* stored key, removes exactly that entry from the multiset of stored entries,
\* and decreases size by 1.
C15_ExtractMinRemovesMinimum ==
    (heapCall.op = "ExtractMin" /\ heapCall.before.arr # <<>>) =>
        LET old == heapCall.before.arr
            minNode == heapCall.ret
        IN  /\ \A i \in DOMAIN old : minNode.key <= old[i].key
            /\ \A e \in HNodes \cup {minNode} :
                  Count(heap.arr, e) = Count(old, e) - (IF e = minNode THEN 1 ELSE 0)
            /\ Len(heap.arr) = Len(old) - 1
            /\ heap.capacity = heapCall.before.capacity

\* the entry taken out was stored twice, beside another entry of the same key
\* and a larger one: one copy of it is still there
C15_Witness ==
    /\ heapCall.op = "ExtractMin"
    /\ Len(heapCall.before.arr) = 4
    /\ Count(heapCall.before.arr, heapCall.ret) = 2
    /\ Count(heap.arr, heapCall.ret) = 1
    /\ \E i \in DOMAIN heap.arr :
          heap.arr[i].key = heapCall.ret.key /\ heap.arr[i] # heapCall.ret
    /\ \E i \in DOMAIN heap.arr : heap.arr[i].key > heapCall.ret.key

\* C16: 0 <= size <= capacity at all times, and InsertKey on a heap with
\* size = capacity leaves size and the stored entries as they were.
C16_SizeWithinCapacity ==
    /\ 0 <= Len(heap.arr)
    /\ Len(heap.arr) <= heap.capacity
    /\ (heapCall.op = "InsertKey" /\ Len(heapCall.before.arr) = heapCall.before.capacity)
          => heap = heapCall.before

\* an InsertKey of a new smallest key on a full heap of capacity two
C16_Witness ==
    /\ heapCall.op = "InsertKey"
    /\ heapCall.before.capacity = 2
    /\ Len(heapCall.before.arr) = 2
    /\ heapCall.k < heapCall.before.arr[1].key

\* C17: in every run of PrimsAlgorithm and DijkstraAlgorithm on a graph with
\* non-negative weights, repeated pairs included, the capacity
\* vertices * vertices holds all stale entries: no InsertKey stores nothing.
C17_NoInsertKeyDropped ==
    (Ran("runPrims") \/ Ran("runDijkstra")) => dropped = 0

\* C18: ExtractMin on an empty heap returns the default entry (vertex 0,
\* key 0) and leaves the heap as it was.
C18_ExtractMinOnEmpty ==
    (heapCall.op = "ExtractMin" /\ heapCall.before.arr = <<>>) =>
        /\ heapCall.ret = HNode(0, 0)
        /\ heap = heapCall.before

\* ExtractMin on a heap that has room but holds nothing
C18_Witness ==
    /\ heapCall.op = "ExtractMin"
    /\ heapCall.before.arr = <<>>
    /\ heapCall.before.capacity = MaxCapacity

(* ------------------------------ claim C19 ------------------------------ *)
\* C19: pop on an empty stack and dequeue on an empty queue change nothing,
\* and a push(x) or enqueue(x) made next is answered by top() = x or
\* getFront() = x; the same holds when the dequeue took the last element out,
\* because front and rear are both reset then.
C19_EmptyContainerNoOp ==
    LET n == Len(calls)
    IN  /\ (n >= 1 /\ calls[n].op = "pop" /\ calls[n].before.front = NULL)
              => stack = calls[n].before
        /\ (n >= 1 /\ calls[n].op = "dequeue" /\ calls[n].before.front = NULL)
              => queue = calls[n].before
        /\ (n >= 1 /\ calls[n].op = "dequeue" /\ queue.front = NULL)
              => queue = Queue_new
        /\ (n >= 3 /\ calls[n - 2].op = "pop" /\ calls[n - 1].op = "push"
                   /\ calls[n - 1].before.front = NULL /\ calls[n].op = "top")
              => calls[n].ret = calls[n - 1].arg
        /\ (n >= 3 /\ calls[n - 2].op = "dequeue" /\ calls[n - 1].op = "enqueue"
                   /\ calls[n - 1].before.front = NULL /\ calls[n].op = "getFront")
              => calls[n].ret = calls[n - 1].arg

\* dequeue on an empty queue, then enqueue of a value and getFront() answering
\* it, beside a stack that holds something
C19_Witness ==
    /\ Len(calls) = Remembered
    /\ calls[1].op = "dequeue"
    /\ calls[1].before = Queue_new
    /\ calls[2].op = "enqueue"
    /\ calls[2].arg = MaxValue
    /\ calls[3].op = "getFront"
    /\ calls[3].ret = MaxValue
    /\ stack.front # NULL

(* ------------------------------ claim C21 ------------------------------ *)
\* the accepted addEdge calls for the pair u, v, as positions in edgeLog
CallsFor(u, v) == {j \in 1..Len(edgeLog) : Joins(edgeLog[j], u, v)}
\* the positions in the chain of u of the records with destination v
RecordsTo(u, v) == {i \in DOMAIN array[u] : array[u][i].destination = v}

\* C21: after k accepted addEdge calls for a pair u # v the chain of u holds
\* exactly k records with destination v (and the chain of v k records with
\* destination u), while AdjMat[u][v] = AdjMat[v][u] is the weight of the
\* last call, which is the weight of the newest such record; the matrix is
\* symmetric and a cell is non-zero only if the chain holds a matching record.
C21_ReinsertKeepsInStep ==
    globalGraph =>
        \A u, v \in Vertex(vertices) :
            /\ AdjMat[u][v] = AdjMat[v][u]
            /\ AdjMat[u][v] # 0 =>
                  \E i \in DOMAIN array[u] : array[u][i] = Node(v, AdjMat[u][v])
            /\ u # v =>
                  /\ Cardinality(RecordsTo(u, v)) = Cardinality(CallsFor(u, v))
                  /\ CallsFor(u, v) # {} =>
                        /\ AdjMat[u][v] = edgeLog[LastInserted(u, v)].w
                        /\ AdjMat[u][v] = array[u][Min(RecordsTo(u, v))].weight

\* three calls for the pair 0, 1, the last with another weight than the first
C21_Witness ==
    /\ globalGraph
    /\ Cardinality(CallsFor(0, 1)) = 3
    /\ Len(array[0]) = 3
    /\ Len(array[1]) = 3
    /\ AdjMat[0][1] = edgeLog[3].w
    /\ edgeLog[1].w # edgeLog[3].w

(* ------------------------------ claim C22 ------------------------------ *)
\* Path graphs: the edges (i, i + 1, 1) are inserted in increasing order of
\* i, and BFS or DFS is called, up to MaxRuns times, at any point of that.
NextPath ==
    \/ \E n \in 1..MaxPath : initGraph(n) /\ UNCHANGED discarded /\ UNCHANGED others
    \/ /\ globalGraph
       /\ runs = 0
       /\ EdgeCount + 1 < vertices
       /\ addEdge(EdgeCount, EdgeCount + 1, 1)
       /\ UNCHANGED others
    \/ \E s \in Starts : globalGraph /\ runs < MaxRuns /\ runBFS(s) /\ UNCHANGED others
    \/ \E s \in Starts : globalGraph /\ runs < MaxRuns /\ runDFS(s) /\ UNCHANGED others

SpecPath == Init /\ [][NextPath]_vars

\* the graph is the whole path 0 - 1 - ... - (vertices - 1)
PathComplete ==
    /\ globalGraph
    /\ Len(edgeLog) = vertices - 1
    /\ \A j \in 1..Len(edgeLog) : edgeLog[j] = Logged(j - 1, j, 1)

\* C22: on the path graph over 0..n-1 whose edges (i, i + 1, 1) were inserted
\* in increasing order of i, BFS(0) and DFS(0) both write 0, 1, ..., n-1.
C22_PathOrder ==
    (PathComplete /\ lastCall.op \in {"runBFS", "runDFS"} /\ lastCall.a = 0) =>
        /\ lastCall.count = vertices
        /\ \A i \in Vertex(vertices) : outputBuffer[i] = i

\* the path on four vertices, walked by DFS(0) after BFS(0)
C22_Witness ==
    /\ PathComplete
    /\ vertices = 4
    /\ runs = 2
    /\ lastCall.op = "runDFS"
    /\ lastCall.a = 0
    /\ outputBuffer = [i \in Vertex(4) |-> i]

(* ------------------------------ claim C30 ------------------------------ *)
\* C30: before the first initGraph call the bridge is uninitialized and every
\* other entry point is a no-op: addEdge, runBFS, runDFS, runPrims and
\* runDijkstra change nothing, getResultBuffer returns the null pointer, and
\* the bridge stays uninitialized until initGraph is called.
C30_UninitializedNoOp ==
    [][(~globalGraph /\ lastCall'.op # "initGraph") =>
          /\ UNCHANGED <<globalGraph, vertices, array, AdjMat, outputBuffer>>
          /\ outputBuffer = <<>>
          /\ lastCall'.op = "getResultBuffer" => returned' = "nullptr"]_vars

\* no initGraph yet: MaxRuns algorithm calls were made, then getResultBuffer
C30_Witness ==
    /\ ~globalGraph
    /\ runs = MaxRuns
    /\ lastCall.op = "getResultBuffer"
    /\ returned = "nullptr"
    /\ outputBuffer = <<>>
    /\ vertices = 0

(* --------------------------- claims C28, C29 --------------------------- *)
\* the vertices a walk along the front end's edges reaches from the set S
FrontAdjacent(u) == {nodes[u].edges[i].to : i \in DOMAIN nodes[u].edges}
RECURSIVE FrontReach(_)
FrontReach(S) ==
    LET T == S \cup UNION {FrontAdjacent(u) : u \in S}
    IN  IF T = S THEN S ELSE FrontReach(T)

RECURSIVE VisitOrder(_)
VisitOrder(snapshots) ==
    IF snapshots = <<>> THEN <<>>
    ELSE IF Head(snapshots).text = "Visiting"
         THEN <<Head(snapshots).node>> \o VisitOrder(Tail(snapshots))
         ELSE VisitOrder(Tail(snapshots))

\* C29: for every graph built through the front end and every accepted start,
\* the order in which getBFSSnapshots(start) visits the vertices equals the
\* order runBFS(start) wrote into the output buffer.
C29_SnapshotsFollowEngine ==
    (isGraphReady /\ Ran("runBFS")) =>
        VisitOrder(getBFSSnapshots(lastCall.a)) =
            [i \in 1..lastCall.count |-> outputBuffer[i - 1]]

(* ------------------- claims about the iterations ----------------------- *)
Index(seq, x) == CHOOSE i \in DOMAIN seq : seq[i] = x
NoRepeat(seq) == \A i, j \in DOMAIN seq : i # j => seq[i] # seq[j]

\* C23: in a run of DijkstraAlgorithm no vertex has its chain scanned twice
\* (the guard d > distBuffer[u] skips every later heap entry of a scanned
\* vertex, as a visited check would), and no iteration changes distBuffer[u]
\* of a vertex u whose chain was scanned.
C23_ScannedOnceAndFinal ==
    [][(frame.alg = "DijkstraAlgorithm" /\ frame'.alg = "DijkstraAlgorithm")
        => /\ NoRepeat(frame'.done)
           /\ \A u \in Range(frame.done) : outputBuffer'[u] = outputBuffer[u]]_vars

\* a run that extracted a stale entry: every vertex scanned, one of them
\* reached with a distance that was lowered after its first heap entry
C23_Witness ==
    /\ frame.alg = "DijkstraAlgorithm"
    /\ Finished
    /\ Len(frame.done) = MaxVertices
    /\ frame.lost = 0
    /\ \E v \in Vertex(vertices) \ {frame.startIndex} :
          AdjMat[frame.startIndex][v] > outputBuffer[v]

\* C24: when DFS appended a vertex that had an unvisited neighbour, the vertex
\* it appends next is the unvisited neighbour whose record was last in the
\* chain of that vertex.
C24_DFSLastRecordNext ==
    [][(frame.alg = "DFS" /\ frame'.alg = "DFS" /\ frame'.count = frame.count + 1
          /\ frame.owed # -1)
        => outputBuffer'[frame.count] = frame.owed]_vars

\* DFS appended a vertex with two unvisited neighbours and then the one whose
\* record is last in its chain, which is not the one at the head
C24_Witness ==
    /\ frame.alg = "DFS"
    /\ frame.count = 2
    /\ LET chain == AdjList_getHead(array[outputBuffer[0]])
       IN  /\ Len(chain) >= 2
           /\ chain[Len(chain)].destination = outputBuffer[1]
           /\ chain[1].destination \notin {outputBuffer[0], outputBuffer[1]}

\* C26: an iteration of DFS that pops an already visited vertex pushes
\* nothing, and when DFS has finished, what it wrote is what the loop writes
\* that scans the chain of a popped vertex only if the vertex was not visited.
GuardedDFSLoop(array_, s, visited, buffer, count) ==
    LET RECURSIVE Loop(_, _, _, _)
        Loop(st, vis, buf, c) ==
            IF Stack_isEmpty(st) THEN [buffer |-> buf, count |-> c]
            ELSE LET currVertex == Stack_top(st)
                     popped == Stack_pop(st)
                 IN  IF vis[currVertex] THEN Loop(popped, vis, buf, c)
                     ELSE LET vis1 == [vis EXCEPT ![currVertex] = TRUE]
                          IN  Loop(DFSScan(AdjList_getHead(array_[currVertex]), 1, vis1, popped),
                                   vis1, [buf EXCEPT ![c] = currVertex], c + 1)
    IN  Loop(s, visited, buffer, count)

C26_StalePopPushesNothing ==
    frame.alg = "DFS"
        => /\ frame.stale => frame.pushed = 0
           /\ Finished =>
                 LET g == GuardedDFSLoop(array, Stack_push(<<>>, frame.startIndex),
                                         NoneVisited(vertices), frame.entry, 0)
                 IN  outputBuffer = g.buffer /\ frame.count = g.count

\* DFS popped an already visited vertex after it wrote every vertex of a
\* graph of MaxEdges edges, and has finished
C26_Witness ==
    /\ frame.alg = "DFS"
    /\ frame.stale
    /\ frame.count = MaxVertices
    /\ EdgeCount = MaxEdges
    /\ Finished

\* C27: in a run of PrimsAlgorithm, every vertex v with parentBuffer[v] # -1
\* has its parent in [0, vertices), adjacent to v and finalized, before v if v
\* is finalized, and following parentBuffer from v reaches the start vertex in
\* fewer than vertices steps.
C27_ParentsRooted ==
    frame.alg = "PrimsAlgorithm"
        => \A v \in Vertex(vertices) :
              outputBuffer[v] # -1
                 => /\ outputBuffer[v] \in Vertex(vertices)
                    /\ outputBuffer[v] \in Adjacent(v)
                    /\ outputBuffer[v] \in Range(frame.done)
                    /\ v \in Range(frame.done)
                          => Index(frame.done, outputBuffer[v]) < Index(frame.done, v)
                    /\ \E k \in 1..(vertices - 1) :
                          Climbs(outputBuffer, v, frame.startIndex, k)

\* a finished run whose tree is a chain: a vertex whose parent is not the
\* start vertex, after an edge to an already finalized vertex was passed over
C27_Witness ==
    /\ frame.alg = "PrimsAlgorithm"
    /\ Finished
    /\ Len(frame.done) = MaxVertices
    /\ EdgeCount = MaxEdges
    /\ \E v \in Vertex(vertices) :
          outputBuffer[v] \notin {-1, frame.startIndex}

\* C25: every call of BFS, DFS, PrimsAlgorithm or DijkstraAlgorithm that was
\* made on a graph with weights 0 and above returns.
C25_EveryCallReturns == (frame.alg # "none") ~> (frame.alg = "none")

\* a call returned after an iteration that found an already visited vertex
C25_Witness ==
    /\ runs = 1
    /\ frame = Idle
    /\ lastCall.op = "runDFS"
    /\ lastCall.count = MaxVertices
    /\ EdgeCount = MaxEdges
    /\ \E e \in Range(edgeLog) : e.w = 0
====
